---------------------------- MODULE Spec2Model ----------------------------
(***************************************************************************)
(* Exam attempt engine of the CAT exam simulator: the App component        *)
(* (src/App.tsx), the ExamView component with its countdown hook useTimer  *)
(* (src/types.ts), and the scoring function calculateScore                 *)
(* (src/services/examLogic.ts).                                            *)
(*                                                                         *)
(* One action is one event of the single-threaded event loop: a user       *)
(* event handler, a timer callback, or the passing of time.  An action     *)
(* includes the re-render and the effects that the handler's state updates *)
(* cause, up to the point where the event loop is idle again.              *)
(*                                                                         *)
(* Strings the program inspects character by character (answers, answer    *)
(* keys) are sequences of one-character strings.                           *)
(***************************************************************************)
EXTENDS Integers, Sequences, FiniteSets, TLC

VARIABLES
    view,                  \* App state `view`
    sessionId,             \* App state `sessionId`
    processingError,       \* App state `processingError`
    questionSet,           \* App state `questionSet`
    attempt,               \* App state `attempt`
    currentQuestionIndex,  \* App state `currentQuestionIndex` (0-based)
    pendingFile,           \* the file handleFileUpload is awaiting the parse of
    lsAttempt,             \* localStorage: key `attempt_<session>` -> blob
    lsLastQid,             \* localStorage: key `last_qid_<session>` -> string
    remainingTime,         \* useTimer state `remainingTime` (of the mounted ExamView)
    isRunning,             \* useTimer state `isRunning`
    tickLeft,              \* ms until the live setInterval of useTimer fires; Off if none
    saveLeft,              \* ms until the pending autosave setTimeout fires; Off if none
    mutationAge,           \* ms since the last answer/status mutation of the attempt
                           \* that no autosave has written yet (capped at
                           \* DEBOUNCE_MS); Off if there is none
    onEndCalls,            \* number of times the mounted useTimer has called onEnd
    userEvents             \* number of user events on questions so far (bounds the
                           \* model), or Off where they are not counted

vars == <<view, sessionId, processingError, questionSet, attempt,
          currentQuestionIndex, pendingFile, lsAttempt, lsLastQid,
          remainingTime, isRunning, tickLeft, saveLeft, mutationAge, onEndCalls,
          userEvents>>

-----------------------------------------------------------------------------
(* Bounds of the model *)

\* EXAM_DURATION_SECONDS is 180 * 60 in the source; the model counts down
\* from a small number of seconds.
EXAM_DURATION_SECONDS == 3

\* Time passes in steps of StepMs milliseconds.
StepMs == 1000

\* The user answers, clears, marks and selects questions at most MaxUserEvents
\* times in a behaviour.
MaxUserEvents == 3

(* Program constants *)

\* window.setInterval(..., 1000) in useTimer
TICK_MS == 1000

\* setTimeout(..., 3000) of the autosave effect
DEBOUNCE_MS == 3000

Off == 0 - 1

-----------------------------------------------------------------------------
(* Values *)

Null == [null |-> TRUE]            \* null of an object-typed state
NullStr == "null"                  \* null of a string-typed state
NullKey == <<"null">>              \* answerKey: null (no one-character string)

Absent == [absent |-> TRUE]        \* localStorage.getItem returns null
Malformed == [malformed |-> TRUE]  \* a stored string that JSON.parse rejects
Stored(chars) == [text |-> chars]  \* a stored string with these characters

MCQ == "MCQ"
TITA == "TITA"

NotVisited == "Not Visited"
NotAnswered == "Not Answered"
Answered == "Answered"
MarkedForReview == "Marked for Review"
AnsweredAndMarked == "Answered & Marked for Review"

QuestionStatus == {NotVisited, NotAnswered, Answered, MarkedForReview, AnsweredAndMarked}

Files == {"f1"}

\* The values of Date.now() at the start of an attempt
Timestamps == {1}

\* meta.marking as parsePdfWithGemini sets it
Marking == [mcq |-> [correct |-> 3, wrong |-> -1], tita |-> [correct |-> 3, wrong |-> 0]]

Q(qid, qtype, options, answerKey) ==
    [qid |-> qid, qtype |-> qtype, options |-> options, answerKey |-> answerKey]

MkSet(questions) == [meta |-> [marking |-> Marking], questions |-> questions]

\* The question sets the parse of an uploaded file may yield.
QuestionSets ==
    { MkSet(<< Q(1, MCQ, {<<"A">>, <<"B">>}, <<"B">>), Q(2, TITA, {}, <<"b">>) >>),
      MkSet(<< Q(1, MCQ, {<<"A">>, <<"B">>}, NullKey) >>),
      MkSet(<< >>) }

\* What the user may type into the text input of a TITA question.
TitaTexts == { <<>>, <<" ">>, <<"B">> }

-----------------------------------------------------------------------------
(* String functions *)

IsSpace(c) == c = " "

RECURSIVE trimStart(_)
trimStart(s) ==
    IF s # <<>> /\ IsSpace(Head(s)) THEN trimStart(Tail(s)) ELSE s

RECURSIVE trimEnd(_)
trimEnd(s) ==
    IF s # <<>> /\ IsSpace(s[Len(s)]) THEN trimEnd(SubSeq(s, 1, Len(s) - 1)) ELSE s

trim(s) == trimEnd(trimStart(s))

LowerChar(c) ==
    CASE c = "A" -> "a"
      [] c = "B" -> "b"
      [] OTHER -> c

toLowerCase(s) == [i \in 1..Len(s) |-> LowerChar(s[i])]

\* Number.toString() and parseInt(s, 10) on the qids of the model
Digits == <<"0", "1", "2", "3", "4", "5", "6", "7", "8", "9">>

toString(n) == << Digits[n + 1] >>

parseInt(s) == CHOOSE n \in 0..9 : Digits[n + 1] = s[1]

\* JSON.stringify / JSON.parse of an Attempt
JSON_stringify(att) == [json |-> att]

JSON_parse(blob) == blob.json

-----------------------------------------------------------------------------
(* Scoring: src/services/examLogic.ts *)

Undefined == <<"undefined">>       \* a missing entry of the answers object
UndefinedStatus == "undefined"     \* a missing entry of the statuses object

Get(obj, k) == IF k \in DOMAIN obj THEN obj[k] ELSE Undefined

statusOf(statuses, k) == IF k \in DOMAIN statuses THEN statuses[k] ELSE UndefinedStatus

Put(obj, k, v) == [x \in (DOMAIN obj) \cup {k} |-> IF x = k THEN v ELSE obj[x]]

\* The test of an answer without the trim
isAnsweredUntrimmed(userAnswer) ==
    /\ userAnswer # Undefined
    /\ userAnswer # <<>>

\* `userAnswer && userAnswer.trim() !== ""`
isAnswered(userAnswer) ==
    /\ userAnswer # Undefined
    /\ userAnswer # <<>>
    /\ trim(userAnswer) # <<>>

\* `userAnswer.trim().toLowerCase() === q.answerKey?.toLowerCase()`
isCorrect(userAnswer, answerKey) ==
    /\ answerKey # NullKey
    /\ toLowerCase(trim(userAnswer)) = toLowerCase(answerKey)

ZeroCounts == [mcqCorrect |-> 0, mcqWrong |-> 0, titaCorrect |-> 0, totalAnswered |-> 0]

\* The loop body with a wrong bucket for TITA: an incorrect TITA answer is
\* counted in mcqWrong
countQuestionTitaWrong(c, q, answers) ==
    LET userAnswer == Get(answers, q.qid) IN
    IF isAnswered(userAnswer)
      THEN LET c1 == [c EXCEPT !.totalAnswered = @ + 1]
               ok == isCorrect(userAnswer, q.answerKey)
           IN  IF q.qtype = MCQ
                 THEN IF ok THEN [c1 EXCEPT !.mcqCorrect = @ + 1]
                            ELSE [c1 EXCEPT !.mcqWrong = @ + 1]
                 ELSE IF ok THEN [c1 EXCEPT !.titaCorrect = @ + 1]
                            ELSE [c1 EXCEPT !.mcqWrong = @ + 1]
      ELSE c

\* One iteration of the loop over questionSet.questions
countQuestion(c, q, answers) ==
    LET userAnswer == Get(answers, q.qid) IN
    IF isAnswered(userAnswer)
      THEN LET c1 == [c EXCEPT !.totalAnswered = @ + 1]
               ok == isCorrect(userAnswer, q.answerKey)
           IN  IF q.qtype = MCQ
                 THEN IF ok THEN [c1 EXCEPT !.mcqCorrect = @ + 1]
                            ELSE [c1 EXCEPT !.mcqWrong = @ + 1]
                 ELSE IF q.qtype = TITA
                        THEN IF ok THEN [c1 EXCEPT !.titaCorrect = @ + 1] ELSE c1
                        ELSE c1
      ELSE c

RECURSIVE countQuestions(_, _, _)
countQuestions(c, questions, answers) ==
    IF questions = <<>>
      THEN c
      ELSE countQuestions(countQuestion(c, Head(questions), answers), Tail(questions), answers)

calculateScore(att, qSet) ==
    LET c == countQuestions(ZeroCounts, qSet.questions, att.answers)
        marking == qSet.meta.marking
    IN  [raw |-> (c.mcqCorrect * marking.mcq.correct) + (c.mcqWrong * marking.mcq.wrong)
                   + (c.titaCorrect * marking.tita.correct),
         mcqCorrect |-> c.mcqCorrect,
         mcqWrong |-> c.mcqWrong,
         titaCorrect |-> c.titaCorrect,
         totalAnswered |-> c.totalAnswered]

-----------------------------------------------------------------------------
(* localStorage *)

setItem(ls, key, value) == [ls EXCEPT ![key] = value]

removeItem(ls, key) == [ls EXCEPT ![key] = Absent]

\* `if (savedAttemptRaw)`: getItem returned a non-empty string
isStored(raw) == raw # Absent

-----------------------------------------------------------------------------
(* Question status transitions: the state updaters of ExamView *)

\* An updateStatus that also drops the answer of the question
updateStatusDropsAnswer(prev, qid, newStatus) ==
    [prev EXCEPT !.statuses = Put(prev.statuses, qid, newStatus),
                 !.answers = [k \in (DOMAIN prev.answers) \ {qid} |-> prev.answers[k]]]

\* updateStatus: `{ ...prev, statuses: { ...prev.statuses, [qid]: newStatus } }`
updateStatus(prev, qid, newStatus) ==
    [prev EXCEPT !.statuses = Put(prev.statuses, qid, newStatus)]

\* The status of an answer change in which a new answer takes the mark off
answerStatusSetDropsMark(currentStatus, answer) ==
    IF answer # <<>>
      THEN Answered
      ELSE IF currentStatus = AnsweredAndMarked
             THEN MarkedForReview
             ELSE IF currentStatus # MarkedForReview THEN NotAnswered ELSE currentStatus

\* The status of an answer change in which clearing the answer takes the mark off
answerStatusClearDropsMark(currentStatus, answer) ==
    IF answer # <<>>
      THEN IF currentStatus = MarkedForReview \/ currentStatus = AnsweredAndMarked
             THEN AnsweredAndMarked
             ELSE Answered
      ELSE NotAnswered

\* The status of an answer change in which clearing the answer of a question
\* that is not marked makes it NotVisited
answerStatusClearUnvisits(currentStatus, answer) ==
    IF answer # <<>>
      THEN IF currentStatus = MarkedForReview \/ currentStatus = AnsweredAndMarked
             THEN AnsweredAndMarked
             ELSE Answered
      ELSE IF currentStatus = AnsweredAndMarked
             THEN MarkedForReview
             ELSE IF currentStatus # MarkedForReview THEN NotVisited ELSE currentStatus

\* The status handleAnswerChange computes from the current one and the new answer
answerStatus(currentStatus, answer) ==
    IF answer # <<>>
      THEN IF currentStatus = MarkedForReview \/ currentStatus = AnsweredAndMarked
             THEN AnsweredAndMarked
             ELSE Answered
      ELSE IF currentStatus = AnsweredAndMarked
             THEN MarkedForReview
             ELSE IF currentStatus # MarkedForReview THEN NotAnswered ELSE currentStatus

\* An updater that builds the timer anew instead of spreading prev
answerChangeRestartsTimer(prev, qid, answer) ==
    [prev EXCEPT !.answers = Put(prev.answers, qid, answer),
                 !.statuses = Put(prev.statuses, qid,
                                  answerStatus(statusOf(prev.statuses, qid), answer)),
                 !.timer.startedAt = prev.timer.startedAt + 1,
                 !.timer.durationSec = prev.timer.remainingSec]

\* The updater handleAnswerChange passes to setAttempt
answerChange(prev, qid, answer) ==
    [prev EXCEPT !.answers = Put(prev.answers, qid, answer),
                 !.statuses = Put(prev.statuses, qid,
                                  answerStatus(statusOf(prev.statuses, qid), answer))]

\* `attempt.answers[qid] ? ... : ...`: the entry exists and is not ""
hasAnswer(att, qid) == Get(att.answers, qid) # Undefined /\ Get(att.answers, qid) # <<>>

\* A toggle that takes the mark off an unanswered question by making it NotVisited
markStatusUnmarkUnvisits(att, qid) ==
    LET currentStatus == statusOf(att.statuses, qid) IN
    IF currentStatus = MarkedForReview
      THEN IF hasAnswer(att, qid) THEN Answered ELSE NotVisited
      ELSE IF currentStatus = AnsweredAndMarked
             THEN Answered
             ELSE IF hasAnswer(att, qid) THEN AnsweredAndMarked ELSE MarkedForReview

\* A toggle that cannot take the mark off an answered question
markStatusKeepsMark(att, qid) ==
    LET currentStatus == statusOf(att.statuses, qid) IN
    IF currentStatus = MarkedForReview
      THEN IF hasAnswer(att, qid) THEN Answered ELSE NotAnswered
      ELSE IF currentStatus = AnsweredAndMarked
             THEN MarkedForReview
             ELSE IF hasAnswer(att, qid) THEN AnsweredAndMarked ELSE MarkedForReview

\* The status handleMarkForReview computes
markStatus(att, qid) ==
    LET currentStatus == statusOf(att.statuses, qid) IN
    IF currentStatus = MarkedForReview
      THEN IF hasAnswer(att, qid) THEN Answered ELSE NotAnswered
      ELSE IF currentStatus = AnsweredAndMarked
             THEN Answered
             ELSE IF hasAnswer(att, qid) THEN AnsweredAndMarked ELSE MarkedForReview

\* A selection that sets the selected question to NotAnswered whatever its status
questionSelectResets(att, currentQid, newQid) ==
    LET a1 == IF statusOf(att.statuses, currentQid) = NotVisited
                THEN updateStatus(att, currentQid, NotAnswered) ELSE att
    IN  updateStatus(a1, newQid, NotAnswered)

\* A selection that leaves the selected question as it is
questionSelectLeavesNew(att, currentQid, newQid) ==
    IF statusOf(att.statuses, currentQid) = NotVisited
      THEN updateStatus(att, currentQid, NotAnswered) ELSE att

\* The two updateStatus calls of handleQuestionSelect, in order; both test the
\* statuses of the rendered attempt `att`
questionSelect(att, currentQid, newQid) ==
    LET a1 == IF statusOf(att.statuses, currentQid) = NotVisited
                THEN updateStatus(att, currentQid, NotAnswered) ELSE att
    IN  IF statusOf(att.statuses, newQid) = NotVisited
          THEN updateStatus(a1, newQid, NotAnswered) ELSE a1

-----------------------------------------------------------------------------
(* App: startExam, autosaveAttempt, submitExam *)

Qids(qSet) == {qSet.questions[i].qid : i \in 1..Len(qSet.questions)}

\* questions.findIndex(q => q.qid === qid), 0-based, -1 if there is none
findIndex(questions, qid) ==
    IF \E i \in 1..Len(questions) : questions[i].qid = qid
      THEN (CHOOSE i \in 1..Len(questions) :
                /\ questions[i].qid = qid
                /\ \A j \in 1..(i - 1) : questions[j].qid # qid) - 1
      ELSE 0 - 1

\* The statuses object without the entry of the first question set to NotAnswered
freshStatusesAllNotVisited(qSet) == [qid \in Qids(qSet) |-> NotVisited]

\* The statuses object startExam builds
freshStatuses(qSet) ==
    [qid \in Qids(qSet) |->
        IF qid = qSet.questions[1].qid THEN NotAnswered ELSE NotVisited]

newAttempt(qSet, currentSessionId, now) ==
    [uploadId |-> currentSessionId,
     userId |-> "local_user",
     timer |-> [startedAt |-> now,
                durationSec |-> EXAM_DURATION_SECONDS,
                remainingSec |-> EXAM_DURATION_SECONDS],
     answers |-> << >>,
     statuses |-> freshStatuses(qSet),
     status |-> "inProgress",
     score |-> Null]

\* The index startExam restores on resume
savedIndex(qSet, rawLastQid) ==
    LET lastQuestionId == IF isStored(rawLastQid) THEN parseInt(rawLastQid.text)
                                                ELSE qSet.questions[1].qid
        i == findIndex(qSet.questions, lastQuestionId)
    IN  IF i >= 0 THEN i ELSE 0

\* localStorage keys `attempt_` and `last_qid_` after autosaveAttempt
\* An autosave that writes the attempt as submitted
autosaveAttemptKeySubmitted(ls, att, sid) ==
    IF att # Null /\ sid # NullStr
      THEN setItem(ls, sid, JSON_stringify([att EXCEPT !.status = "submitted"]))
      ELSE ls

autosaveAttemptKey(ls, att, sid) ==
    IF att # Null /\ sid # NullStr THEN setItem(ls, sid, JSON_stringify(att)) ELSE ls

autosaveLastQidKey(ls, att, sid, qSet, index) ==
    IF att # Null /\ sid # NullStr /\ qSet # Null /\ index + 1 \in 1..Len(qSet.questions)
      THEN setItem(ls, sid, Stored(toString(qSet.questions[index + 1].qid)))
      ELSE ls

\* finalAttempt without the score
finalAttemptUnscored(att, qSet) == [att EXCEPT !.status = "submitted"]

\* finalAttempt with the score and without the new status
finalAttemptInProgress(att, qSet) == [att EXCEPT !.score = calculateScore(att, qSet)]

\* finalAttempt of a scoring that empties the answers it has counted
finalAttemptConsumed(att, qSet) ==
    [att EXCEPT !.status = "submitted", !.score = calculateScore(att, qSet),
                !.answers = << >>]

\* finalAttempt of submitExam
finalAttempt(att, qSet) ==
    [att EXCEPT !.status = "submitted", !.score = calculateScore(att, qSet)]

\* The keys after submitExam: autosaveAttempt(), then removeItem of both
submitAttemptKey(ls, att, sid) ==
    IF sid # NullStr THEN removeItem(autosaveAttemptKey(ls, att, sid), sid)
                     ELSE autosaveAttemptKey(ls, att, sid)

submitLastQidKey(ls, att, sid, qSet, index) ==
    IF sid # NullStr THEN removeItem(autosaveLastQidKey(ls, att, sid, qSet, index), sid)
                     ELSE autosaveLastQidKey(ls, att, sid, qSet, index)

-----------------------------------------------------------------------------
(* Initial state: the App component as first rendered, before any upload.   *)
(* localStorage is whatever earlier page loads or other code left in it.    *)

Init ==
    /\ view = "upload"
    /\ sessionId = NullStr
    /\ processingError = NullStr
    /\ questionSet = Null
    /\ attempt = Null
    /\ currentQuestionIndex = 0
    /\ pendingFile = NullStr
    /\ lsAttempt \in [Files -> {Absent, Malformed}]
    /\ lsLastQid = [f \in Files |-> Absent]
    /\ remainingTime = 0
    /\ isRunning = FALSE
    /\ tickLeft = Off
    /\ saveLeft = DEBOUNCE_MS
    /\ mutationAge = Off
    /\ onEndCalls = 0
    /\ userEvents = 0

-----------------------------------------------------------------------------
(* Upload and start of an attempt *)

\* handleFileUpload up to its `await`
handleFileUpload(file) ==
    /\ view = "upload"
    /\ view' = "processing"
    /\ processingError' = NullStr
    /\ pendingFile' = file
    /\ saveLeft' = DEBOUNCE_MS
    /\ UNCHANGED <<sessionId, questionSet, attempt, currentQuestionIndex, lsAttempt,
                   lsLastQid, remainingTime, isRunning, tickLeft, mutationAge, onEndCalls, userEvents>>

\* handleFileUpload: parsePdfWithGemini rejects, the catch block runs
ParseRejected ==
    /\ view = "processing"
    /\ view' = "upload"
    /\ processingError' = "AI parsing failed: parse"
    /\ pendingFile' = NullStr
    /\ saveLeft' = DEBOUNCE_MS
    /\ UNCHANGED <<sessionId, questionSet, attempt, currentQuestionIndex, lsAttempt,
                   lsLastQid, remainingTime, isRunning, tickLeft, mutationAge, onEndCalls, userEvents>>

\* A timer that starts every attempt at its full duration
mountRemainingFull(att) == att.timer.durationSec

\* remainingTime after the first render of ExamView: useTimer(att.timer.remainingSec),
\* then the mount effect's setTime of the stored remainingSec, if an attempt is
\* stored under the uploadId
mountRemaining(att) ==
    LET raw == lsAttempt[att.uploadId] IN
    IF isStored(raw) THEN JSON_parse(raw).timer.remainingSec
                     ELSE att.timer.remainingSec

\* The first render of ExamView for attempt `att`: the mount effect (setTime,
\* start()), the effect that copies remainingTime into the attempt, and the
\* timer effect.
enterExam(att, qSet, sid, index) ==
    LET rt == mountRemaining(att)
        synced == [att EXCEPT !.timer.remainingSec = rt]
    IN  /\ currentQuestionIndex' = index
        /\ remainingTime' = rt
        /\ mutationAge' = Off
        /\ saveLeft' = DEBOUNCE_MS
        /\ IF rt > 0
             THEN /\ view' = "exam"
                  /\ attempt' = synced
                  /\ isRunning' = TRUE
                  /\ tickLeft' = TICK_MS
                  /\ onEndCalls' = 0
                  /\ UNCHANGED <<lsAttempt, lsLastQid>>
             ELSE \* `else if (remainingTime <= 0 && isRunning) endTimer()`
                  /\ view' = "results"
                  /\ attempt' = finalAttempt(synced, qSet)
                  /\ isRunning' = FALSE
                  /\ tickLeft' = Off
                  /\ onEndCalls' = 1
                  /\ lsAttempt' = submitAttemptKey(lsAttempt, synced, sid)
                  /\ lsLastQid' = submitLastQidKey(lsLastQid, synced, sid, qSet, index)

\* A startExam that starts an attempt on every question list
noQuestionsNever(qSet) == FALSE

\* `if (qSet.questions.length === 0)`
noQuestions(qSet) == Len(qSet.questions) = 0

startExam(qSet, currentSessionId, now) ==
    IF noQuestions(qSet)
      THEN /\ processingError' = "No questions could be parsed from the PDF."
           /\ view' = "upload"
           /\ saveLeft' = DEBOUNCE_MS
           /\ UNCHANGED <<attempt, currentQuestionIndex, lsAttempt, lsLastQid,
                          remainingTime, isRunning, tickLeft, mutationAge, onEndCalls, userEvents>>
      ELSE IF isStored(lsAttempt[currentSessionId])
             THEN IF lsAttempt[currentSessionId] = Malformed
                    THEN \* JSON.parse throws; the catch block of handleFileUpload runs
                         /\ processingError' = "AI parsing failed: JSON"
                         /\ view' = "upload"
                         /\ saveLeft' = DEBOUNCE_MS
                         /\ UNCHANGED <<attempt, currentQuestionIndex, lsAttempt,
                                        lsLastQid, remainingTime, isRunning, tickLeft,
                                        mutationAge, onEndCalls, userEvents>>
                    ELSE /\ enterExam(JSON_parse(lsAttempt[currentSessionId]), qSet,
                                      currentSessionId,
                                      savedIndex(qSet, lsLastQid[currentSessionId]))
                         /\ UNCHANGED processingError
             ELSE /\ enterExam(newAttempt(qSet, currentSessionId, now), qSet,
                               currentSessionId, 0)
                  /\ UNCHANGED processingError

\* handleFileUpload after its `await`: parsePdfWithGemini resolved with qSet
ParseResolved(qSet, now) ==
    /\ view = "processing"
    /\ sessionId' = pendingFile
    /\ questionSet' = qSet
    /\ pendingFile' = NullStr
    /\ startExam(qSet, pendingFile, now)
    /\ UNCHANGED userEvents

-----------------------------------------------------------------------------
(* ExamView: user events *)

currentQuestion == questionSet.questions[currentQuestionIndex + 1]

\* The interval after a re-render of ExamView in which `attempt` or the index
\* changed: submitExam and with it endTimer are new functions, so the timer
\* effect runs again and replaces the interval.
restartedInterval == IF isRunning /\ remainingTime > 0 THEN TICK_MS ELSE Off

\* A debounce effect that keeps a timeout that is already pending
rescheduledSaveKept == IF saveLeft = Off THEN DEBOUNCE_MS ELSE saveLeft

\* The debounce effect after a change of the attempt or of the displayed
\* question: clearTimeout of the pending timeout, then a new setTimeout
rescheduledSave == DEBOUNCE_MS

\* setAttempt(updated) by a user event handler of ExamView, with the effects of
\* the re-render: the autosave timeout and the tick interval are replaced.
userMutation(updated, index) ==
    /\ userEvents < MaxUserEvents
    /\ userEvents' = IF userEvents = Off THEN Off ELSE userEvents + 1
    /\ attempt' = updated
    /\ currentQuestionIndex' = index
    /\ saveLeft' = rescheduledSave
    /\ tickLeft' = restartedInterval
    /\ mutationAge' = 0
    /\ UNCHANGED <<view, sessionId, processingError, questionSet, pendingFile,
                   lsAttempt, lsLastQid, remainingTime, isRunning, onEndCalls>>

\* The radio input of an option of the displayed MCQ question
SelectOption(label) ==
    /\ view = "exam"
    /\ currentQuestion.qtype = MCQ
    /\ label \in currentQuestion.options
    /\ Get(attempt.answers, currentQuestion.qid) # label
    /\ userMutation(answerChange(attempt, currentQuestion.qid, label),
                    currentQuestionIndex)

\* The text input of the displayed TITA question: its value becomes `text`
TypeAnswer(text) ==
    /\ view = "exam"
    /\ currentQuestion.qtype = TITA
    /\ text # (IF hasAnswer(attempt, currentQuestion.qid)
                 THEN attempt.answers[currentQuestion.qid] ELSE <<>>)
    /\ userMutation(answerChange(attempt, currentQuestion.qid, text),
                    currentQuestionIndex)

clearResponse ==
    /\ view = "exam"
    /\ userMutation(answerChange(attempt, currentQuestion.qid, <<>>),
                    currentQuestionIndex)

handleMarkForReview ==
    /\ view = "exam"
    /\ userMutation(updateStatus(attempt, currentQuestion.qid,
                                 markStatus(attempt, currentQuestion.qid)),
                    currentQuestionIndex)

handleQuestionSelect(index) ==
    /\ view = "exam"
    /\ index \in 0..(Len(questionSet.questions) - 1)
    /\ LET updated == questionSelect(attempt, currentQuestion.qid,
                                     questionSet.questions[index + 1].qid)
       IN  /\ updated # attempt \/ index # currentQuestionIndex
           /\ userMutation(updated, index)

\* The Previous and Next buttons, with the section filter at 'All'
\* (filteredQuestions is questionSet.questions)
navigateWithinFilter(direction) ==
    /\ view = "exam"
    /\ LET filteredQuestions == questionSet.questions
           currentFilteredIndex == findIndex(filteredQuestions, currentQuestion.qid)
           nextFilteredIndex == IF direction = "next" THEN currentFilteredIndex + 1
                                                      ELSE currentFilteredIndex - 1
       IN  /\ nextFilteredIndex >= 0
           /\ nextFilteredIndex < Len(filteredQuestions)
           /\ LET nextQuestionQid == filteredQuestions[nextFilteredIndex + 1].qid
                  originalIndex == findIndex(questionSet.questions, nextQuestionQid)
              IN  /\ originalIndex # 0 - 1
                  /\ handleQuestionSelect(originalIndex)

\* submitExam with the rendered attempt; ExamView is unmounted by the re-render
submitExam ==
    /\ attempt' = finalAttempt(attempt, questionSet)
    /\ view' = "results"
    /\ lsAttempt' = submitAttemptKey(lsAttempt, attempt, sessionId)
    /\ lsLastQid' = submitLastQidKey(lsLastQid, attempt, sessionId, questionSet,
                                     currentQuestionIndex)
    /\ saveLeft' = DEBOUNCE_MS
    /\ mutationAge' = Off
    /\ UNCHANGED <<sessionId, processingError, questionSet, currentQuestionIndex,
                   pendingFile, userEvents>>

\* endTimer(): clearInterval, setIsRunning(false), onEnd(), where onEnd is the
\* submitExam of the rendered attempt
endTimer ==
    /\ isRunning' = FALSE
    /\ tickLeft' = Off
    /\ onEndCalls' = onEndCalls + 1
    /\ submitExam

\* A cleanup of the timer effect that leaves the interval running
pausedIntervalKept == tickLeft

\* The timer effect after isRunning became false: the cleanup clears the
\* interval and the effect sets none
pausedInterval == Off

\* An effect that replaces the interval although its dependencies are the same
sameDepsIntervalRestarted == IF isRunning THEN TICK_MS ELSE Off

\* A setIsRunning or setRemainingTime with the value the state already has:
\* no dependency of the timer effect changes, the interval is left as it is
sameDepsInterval == tickLeft

\* start() of useTimer, called by the component that uses the hook, and the
\* timer effect of the re-render
start ==
    /\ view = "exam"
    /\ userEvents < MaxUserEvents
    /\ IF isRunning
         THEN /\ tickLeft' = sameDepsInterval
              /\ userEvents' = userEvents + 1
              /\ UNCHANGED <<view, sessionId, processingError, questionSet, attempt,
                             currentQuestionIndex, pendingFile, lsAttempt, lsLastQid,
                             remainingTime, isRunning, saveLeft, mutationAge,
                             onEndCalls>>
         ELSE IF remainingTime <= 0
                THEN \* `else if (remainingTime <= 0 && isRunning) endTimer()`
                     /\ endTimer
                     /\ UNCHANGED remainingTime
                ELSE /\ isRunning' = TRUE
                     /\ tickLeft' = TICK_MS
                     /\ userEvents' = userEvents + 1
                     /\ UNCHANGED <<view, sessionId, processingError, questionSet,
                                    attempt, currentQuestionIndex, pendingFile,
                                    lsAttempt, lsLastQid, remainingTime, saveLeft,
                                    mutationAge, onEndCalls>>

\* pause() of useTimer, called by the component that uses the hook, and the
\* timer effect of the re-render
pause ==
    /\ view = "exam"
    /\ userEvents < MaxUserEvents
    /\ userEvents' = userEvents + 1
    /\ isRunning' = FALSE
    /\ tickLeft' = IF isRunning THEN pausedInterval ELSE sameDepsInterval
    /\ UNCHANGED <<view, sessionId, processingError, questionSet, attempt,
                   currentQuestionIndex, pendingFile, lsAttempt, lsLastQid,
                   remainingTime, saveLeft, mutationAge, onEndCalls>>

\* A setTime without its test of isRunning
setTimeAllowedAlways == TRUE

\* `if(!isRunning)` of setTime
setTimeAllowed == ~isRunning

\* setTime(newTime) of useTimer, called by the component that uses the hook,
\* with the effects of the re-render: the effect of ExamView that copies
\* remainingTime into the attempt, the debounce effect and the timer effect
setTime(newTime) ==
    /\ view = "exam"
    /\ userEvents < MaxUserEvents
    /\ userEvents' = userEvents + 1
    /\ IF setTimeAllowed /\ newTime # remainingTime
         THEN /\ remainingTime' = newTime
              /\ attempt' = [attempt EXCEPT !.timer.remainingSec = newTime]
              /\ saveLeft' = DEBOUNCE_MS
              /\ tickLeft' = IF isRunning /\ newTime > 0 THEN TICK_MS ELSE Off
         ELSE /\ tickLeft' = sameDepsInterval
              /\ UNCHANGED <<remainingTime, attempt, saveLeft>>
    /\ UNCHANGED <<view, sessionId, processingError, questionSet,
                   currentQuestionIndex, pendingFile, lsAttempt, lsLastQid,
                   isRunning, mutationAge, onEndCalls>>

\* togglePause: pause() when running, start() otherwise, and the timer effect
\* of the re-render
togglePause ==
    /\ view = "exam"
    /\ IF ~isRunning /\ remainingTime <= 0
         THEN \* start(), then `else if (remainingTime <= 0 && isRunning) endTimer()`
              /\ endTimer
              /\ UNCHANGED remainingTime
         ELSE /\ isRunning' = ~isRunning
              /\ tickLeft' = IF isRunning THEN pausedInterval ELSE TICK_MS
              /\ UNCHANGED <<view, sessionId, processingError, questionSet, attempt,
                             currentQuestionIndex, pendingFile, lsAttempt, lsLastQid,
                             remainingTime, saveLeft, mutationAge, onEndCalls,
                             userEvents>>

\* An unmount that leaves the interval running
unmountIntervalKept == tickLeft

\* The cleanup of the timer effect when ExamView is unmounted
unmountInterval == Off

\* Confirm Submit of the submit dialog
handleConfirmSubmit ==
    /\ view = "exam"
    /\ submitExam
    /\ isRunning' = FALSE
    /\ tickLeft' = unmountInterval
    /\ UNCHANGED <<remainingTime, onEndCalls>>

\* onExit of ExamView: setView('upload').  ExamView renders the button that
\* calls it only when there is no current question, and startExam never enters
\* the exam view with an index outside the question list: see
\* ExitButtonNeverRendered.  The action is therefore no disjunct of Next; an
\* attempt is left by PageReload.
onExit ==
    /\ view = "exam"
    /\ currentQuestionIndex + 1 \notin 1..Len(questionSet.questions)
    /\ view' = "upload"
    /\ saveLeft' = DEBOUNCE_MS
    /\ mutationAge' = Off
    /\ isRunning' = FALSE
    /\ tickLeft' = unmountInterval
    /\ UNCHANGED <<sessionId, processingError, questionSet, attempt,
                   currentQuestionIndex, pendingFile, lsAttempt, lsLastQid,
                   remainingTime, onEndCalls, userEvents>>

\* The page is closed or reloaded and opened again: the state of every
\* component is the initial one, timers are gone, localStorage is kept.
PageReload ==
    /\ view' = "upload"
    /\ sessionId' = NullStr
    /\ processingError' = NullStr
    /\ questionSet' = Null
    /\ attempt' = Null
    /\ currentQuestionIndex' = 0
    /\ pendingFile' = NullStr
    /\ remainingTime' = 0
    /\ isRunning' = FALSE
    /\ tickLeft' = Off
    /\ saveLeft' = DEBOUNCE_MS
    /\ mutationAge' = Off
    /\ onEndCalls' = 0
    /\ UNCHANGED <<lsAttempt, lsLastQid, userEvents>>

-----------------------------------------------------------------------------
(* Timers *)

\* The test of the updater with another threshold
expiresAt2(prevTime) == prevTime <= 2

\* `if (prevTime <= 1)` of the updater the interval callback passes to
\* setRemainingTime
expires(prevTime) == prevTime <= 1

\* The updater counting down by two
tickUpdaterBy2(prevTime) == IF expires(prevTime) THEN 0 ELSE prevTime - 2

\* The value that updater returns
tickUpdater(prevTime) == IF expires(prevTime) THEN 0 ELSE prevTime - 1

\* The callback of the interval of useTimer, the effect of ExamView that copies
\* remainingTime into the attempt, and the timer effect of the re-render
Tick ==
    /\ tickLeft = 0
    /\ remainingTime' = tickUpdater(remainingTime)
    /\ IF expires(remainingTime) \/ tickUpdater(remainingTime) <= 0
         THEN \* endTimer() from the updater, or from the timer effect
              \* (`else if (remainingTime <= 0 && isRunning)`)
              endTimer
         ELSE /\ attempt' = [attempt EXCEPT
                                !.timer.remainingSec = tickUpdater(remainingTime)]
              /\ tickLeft' = TICK_MS
              /\ saveLeft' = DEBOUNCE_MS
              /\ UNCHANGED <<view, sessionId, processingError, questionSet,
                             currentQuestionIndex, pendingFile, lsAttempt, lsLastQid,
                             isRunning, mutationAge, onEndCalls, userEvents>>

\* The callback of the autosave timeout without its test of the view
timeoutSavesAlways == TRUE

\* `if (view === 'exam')` of the callback of the autosave timeout
timeoutSaves == view = "exam"

\* The callback of the autosave timeout
SaveFire ==
    /\ saveLeft = 0
    /\ saveLeft' = Off
    /\ IF timeoutSaves
         THEN /\ lsAttempt' = autosaveAttemptKey(lsAttempt, attempt, sessionId)
              /\ lsLastQid' = autosaveLastQidKey(lsLastQid, attempt, sessionId,
                                                 questionSet, currentQuestionIndex)
              /\ mutationAge' = Off       \* every mutation so far is written
         ELSE UNCHANGED <<lsAttempt, lsLastQid, mutationAge>>
    /\ UNCHANGED <<view, sessionId, processingError, questionSet, attempt,
                   currentQuestionIndex, pendingFile, remainingTime, isRunning,
                   tickLeft, onEndCalls, userEvents>>

elapse(left) == IF left = Off THEN Off ELSE IF left > StepMs THEN left - StepMs ELSE 0

\* StepMs milliseconds pass; no timer is due
Advance ==
    /\ tickLeft # 0
    /\ saveLeft # 0
    /\ tickLeft > 0 \/ saveLeft > 0 \/ (mutationAge # Off /\ mutationAge < DEBOUNCE_MS)
    /\ tickLeft' = elapse(tickLeft)
    /\ saveLeft' = elapse(saveLeft)
    /\ mutationAge' = IF mutationAge = Off THEN Off
                      ELSE IF mutationAge + StepMs < DEBOUNCE_MS
                             THEN mutationAge + StepMs ELSE DEBOUNCE_MS
    /\ UNCHANGED <<view, sessionId, processingError, questionSet, attempt,
                   currentQuestionIndex, pendingFile, lsAttempt, lsLastQid,
                   remainingTime, isRunning, onEndCalls, userEvents>>

-----------------------------------------------------------------------------

Next ==
    \/ \E file \in Files : handleFileUpload(file)
    \/ ParseRejected
    \/ \E qSet \in QuestionSets, now \in Timestamps : ParseResolved(qSet, now)
    \/ \E label \in {<<"A">>, <<"B">>} : SelectOption(label)
    \/ \E text \in TitaTexts : TypeAnswer(text)
    \/ clearResponse
    \/ handleMarkForReview
    \/ \E index \in 0..1 : handleQuestionSelect(index)
    \/ \E direction \in {"next", "prev"} : navigateWithinFilter(direction)
    \/ togglePause
    \/ handleConfirmSubmit
    \/ PageReload
    \/ Tick
    \/ SaveFire
    \/ Advance

Spec == Init /\ [][Next]_vars

\* ExamView always has a current question, so it never renders the view with
\* the exit button.
ExitButtonNeverRendered == ~ ENABLED onExit

-----------------------------------------------------------------------------
(* Scoring of an attempt: submitExam from the exam view, for every question *)
(* list up to ScoreMaxLen questions and every answers object the inputs of  *)
(* ExamView can produce for it.                                             *)

\* The longest question list that is scored
ScoreMaxLen == 2

ScoreQids == {1, 2}

\* The answer keys a parse may give a question: a label, a label in another
\* case with white space after it, null
ScoreKeys == { <<"B">>, <<"b", " ">>, NullKey }

ScoreQuestions ==
    {Q(qid, MCQ, {<<"A">>, <<"B">>}, key) : qid \in ScoreQids, key \in ScoreKeys}
      \cup {Q(qid, TITA, {}, key) : qid \in ScoreQids, key \in ScoreKeys}

ScoreSets ==
    {MkSet(questions) :
        questions \in UNION {[1..n -> ScoreQuestions] : n \in 1..ScoreMaxLen}}

\* What the user may have typed into the text input of a TITA question
ScoreTexts == { <<>>, <<" ">>, <<"B">>, <<" ", "b">>, <<"A">> }

\* The values handleAnswerChange can have stored for qid: an option label of an
\* MCQ question of that qid, a text typed for a TITA question of that qid, or
\* "" after clearResponse
answersFor(qSet, qid) ==
    UNION {IF qSet.questions[i].qtype = MCQ THEN qSet.questions[i].options \cup {<<>>}
                                           ELSE ScoreTexts :
              i \in {j \in 1..Len(qSet.questions) : qSet.questions[j].qid = qid}}

\* The answers objects of an attempt on qSet
ScoreAnswers(qSet) ==
    UNION {{answers \in [qids -> ScoreTexts] :
               \A qid \in qids : answers[qid] \in answersFor(qSet, qid)} :
              qids \in SUBSET Qids(qSet)}

\* The statuses of an attempt on qSet with these answers and no question marked
scoreStatuses(qSet, answers) ==
    [qid \in Qids(qSet) |->
        IF qid \in DOMAIN answers
          THEN answerStatus(NotAnswered, answers[qid])
          ELSE freshStatuses(qSet)[qid]]

\* The exam view of a fresh attempt after the user has answered questions
InitScore ==
    /\ view = "exam"
    /\ sessionId = "f1"
    /\ processingError = NullStr
    /\ questionSet \in ScoreSets
    /\ \E now \in Timestamps, answers \in ScoreAnswers(questionSet) :
          attempt = [newAttempt(questionSet, sessionId, now) EXCEPT
                        !.answers = answers,
                        !.statuses = scoreStatuses(questionSet, answers)]
    /\ currentQuestionIndex = 0
    /\ pendingFile = NullStr
    /\ lsAttempt = [f \in Files |-> Absent]
    /\ lsLastQid = [f \in Files |-> Absent]
    /\ remainingTime = EXAM_DURATION_SECONDS
    /\ isRunning = TRUE
    /\ tickLeft = TICK_MS
    /\ saveLeft = DEBOUNCE_MS
    /\ mutationAge = IF attempt.answers = << >> THEN Off ELSE 0
    /\ onEndCalls = 0
    /\ userEvents = 0

NextScore == handleConfirmSubmit

ScoreSpec == InitScore /\ [][NextScore]_vars

-----------------------------------------------------------------------------
(* Start of an attempt: handleFileUpload after its `await`, for every       *)
(* question list up to ScoreMaxLen questions and the empty list.            *)

StartSets == ScoreSets \cup {MkSet(<< >>)}

\* The App component awaiting the parse of the first upload of a page load
InitStart ==
    /\ view = "processing"
    /\ sessionId = NullStr
    /\ processingError = NullStr
    /\ questionSet = Null
    /\ attempt = Null
    /\ currentQuestionIndex = 0
    /\ pendingFile \in Files
    /\ lsAttempt \in [Files -> {Absent, Malformed}]
    /\ lsLastQid = [f \in Files |-> Absent]
    /\ remainingTime = 0
    /\ isRunning = FALSE
    /\ tickLeft = Off
    /\ saveLeft = DEBOUNCE_MS
    /\ mutationAge = Off
    /\ onEndCalls = 0
    /\ userEvents = 0

NextStart == \E qSet \in StartSets, now \in Timestamps : ParseResolved(qSet, now)

StartSpec == InitStart /\ [][NextStart]_vars

-----------------------------------------------------------------------------
(* Question statuses: the user events of ExamView on an attempt started     *)
(* fresh or resumed from the blob of an earlier page load, where the parse  *)
(* of the earlier page load may have returned other questions.              *)

StatusSets ==
    { MkSet(<< Q(1, MCQ, {<<"A">>, <<"B">>}, <<"B">>), Q(2, TITA, {}, <<"b">>) >>),
      MkSet(<< Q(2, TITA, {}, <<"b">>), Q(3, MCQ, {<<"A">>, <<"B">>}, <<"B">>) >>),
      MkSet(<< Q(1, MCQ, {<<"A">>, <<"B">>}, <<"B">>), Q(1, TITA, {}, <<"b">>) >>) }

\* What autosaveAttempt stored in an earlier page load for a fresh attempt on
\* qSet that was paused before the first tick and the first user event
savedFresh(qSet, file, now) == JSON_stringify(newAttempt(qSet, file, now))

savedFreshLastQid(qSet) == Stored(toString(qSet.questions[1].qid))

\* The App component awaiting the parse of the first upload of a page load
InitStatus ==
    /\ view = "processing"
    /\ sessionId = NullStr
    /\ processingError = NullStr
    /\ questionSet = Null
    /\ attempt = Null
    /\ currentQuestionIndex = 0
    /\ pendingFile \in Files
    /\ \/ /\ lsAttempt = [f \in Files |-> Absent]
          /\ lsLastQid = [f \in Files |-> Absent]
       \/ \E qSet \in StatusSets, now \in Timestamps :
             /\ lsAttempt = [f \in Files |-> savedFresh(qSet, f, now)]
             /\ lsLastQid = [f \in Files |-> savedFreshLastQid(qSet)]
    /\ remainingTime = 0
    /\ isRunning = FALSE
    /\ tickLeft = Off
    /\ saveLeft = DEBOUNCE_MS
    /\ mutationAge = Off
    /\ onEndCalls = 0
    /\ userEvents = 0

NextStatus ==
    \/ \E qSet \in StatusSets, now \in Timestamps : ParseResolved(qSet, now)
    \/ \E label \in {<<"A">>, <<"B">>} : SelectOption(label)
    \/ \E text \in TitaTexts : TypeAnswer(text)
    \/ clearResponse
    \/ handleMarkForReview
    \/ \E index \in 0..1 : handleQuestionSelect(index)
    \/ \E direction \in {"next", "prev"} : navigateWithinFilter(direction)

StatusSpec == InitStatus /\ [][NextStatus]_vars

-----------------------------------------------------------------------------
(* The timer: the functions useTimer returns, called by the component that  *)
(* uses the hook in any order, on an attempt started fresh.                 *)

\* The values passed to setTime
Times == 0..EXAM_DURATION_SECONDS

\* The App component awaiting the parse of the first upload of a page load,
\* with nothing stored
InitTimer ==
    /\ view = "processing"
    /\ sessionId = NullStr
    /\ processingError = NullStr
    /\ questionSet = Null
    /\ attempt = Null
    /\ currentQuestionIndex = 0
    /\ pendingFile \in Files
    /\ lsAttempt = [f \in Files |-> Absent]
    /\ lsLastQid = [f \in Files |-> Absent]
    /\ remainingTime = 0
    /\ isRunning = FALSE
    /\ tickLeft = Off
    /\ saveLeft = DEBOUNCE_MS
    /\ mutationAge = Off
    /\ onEndCalls = 0
    /\ userEvents = 0

NextTimer ==
    \/ \E qSet \in StatusSets, now \in Timestamps : ParseResolved(qSet, now)
    \/ start
    \/ pause
    \/ Tick
    \/ SaveFire
    \/ Advance

TimerSpec == InitTimer /\ [][NextTimer]_vars

NextSetTime ==
    \/ NextTimer
    \/ \E newTime \in Times : setTime(newTime)

SetTimeSpec == InitTimer /\ [][NextSetTime]_vars

-----------------------------------------------------------------------------
(* Expiry: an attempt started fresh whose timer is never paused and which   *)
(* is not left, with any number of user events.  An interval or timeout     *)
(* whose time has come runs its callback unless it is cleared before, and   *)
(* time passes.                                                             *)

InitExpiry ==
    /\ view = "processing"
    /\ sessionId = NullStr
    /\ processingError = NullStr
    /\ questionSet = Null
    /\ attempt = Null
    /\ currentQuestionIndex = 0
    /\ pendingFile \in Files
    /\ lsAttempt = [f \in Files |-> Absent]
    /\ lsLastQid = [f \in Files |-> Absent]
    /\ remainingTime = 0
    /\ isRunning = FALSE
    /\ tickLeft = Off
    /\ saveLeft = DEBOUNCE_MS
    /\ mutationAge = Off
    /\ onEndCalls = 0
    /\ userEvents = Off

NextExpiry ==
    \/ \E qSet \in StatusSets, now \in Timestamps : ParseResolved(qSet, now)
    \/ \E label \in {<<"A">>, <<"B">>} : SelectOption(label)
    \/ \E text \in TitaTexts : TypeAnswer(text)
    \/ clearResponse
    \/ handleMarkForReview
    \/ \E index \in 0..1 : handleQuestionSelect(index)
    \/ Tick
    \/ SaveFire
    \/ Advance

ExpirySpec ==
    InitExpiry /\ [][NextExpiry]_vars
        /\ WF_vars(Tick) /\ WF_vars(SaveFire) /\ WF_vars(Advance)

-----------------------------------------------------------------------------
(* Properties *)

submitted == attempt # Null /\ attempt.status = "submitted"

inProgress == attempt # Null /\ attempt.status = "inProgress"

hasKey(q) == q.answerKey # NullKey

\* The questions of the set that are answered in the attempt
answeredIndexes(att, qSet) ==
    {i \in 1..Len(qSet.questions) : isAnswered(Get(att.answers, qSet.questions[i].qid))}

\* C1: a question with a null answerKey that is answered adds to totalAnswered
\* only: the score of a submitted attempt has the raw, mcqCorrect, mcqWrong and
\* titaCorrect of the questions that have an answer key, and its totalAnswered
\* counts every answered question.
C1_NullKeyCountsAsAnsweredOnly ==
    submitted =>
        LET keyed == [questionSet EXCEPT !.questions = SelectSeq(@, hasKey)]
            graded == calculateScore(attempt, keyed)
        IN  /\ attempt.score.totalAnswered = Cardinality(answeredIndexes(attempt, questionSet))
            /\ attempt.score.raw = graded.raw
            /\ attempt.score.mcqCorrect = graded.mcqCorrect
            /\ attempt.score.mcqWrong = graded.mcqWrong
            /\ attempt.score.titaCorrect = graded.titaCorrect

\* The step of handleFileUpload in which startExam finds a saved attempt and
\* enters the exam view with it
resumeStep ==
    /\ view = "processing"
    /\ view' = "exam"
    /\ isStored(lsAttempt[pendingFile])

resumedAsSaved ==
    LET saved == JSON_parse(lsAttempt[pendingFile]) IN
    /\ attempt'.timer.remainingSec = saved.timer.remainingSec
    /\ attempt'.statuses = saved.statuses
    /\ attempt'.answers = saved.answers
    /\ remainingTime' = saved.timer.remainingSec
    /\ isRunning'

displayedQid == currentQuestion.qid

\* C2 as claimed: a start that finds an attempt saved under the session key
\* resumes it with the saved remainingSec, statuses and answers, the timer at the
\* saved remainingSec, and the saved question displayed.
C2_ResumeShowsSavedQuestion ==
    [][resumeStep =>
          /\ resumedAsSaved
          /\ displayedQid' = parseInt(lsLastQid[pendingFile].text)]_vars

\* C2 as amended: ... and the saved question displayed if the question set has a
\* question of that qid, the first question of the set otherwise.
C2_ResumeRoundTrip ==
    [][resumeStep =>
          /\ resumedAsSaved
          /\ LET savedQid == parseInt(lsLastQid[pendingFile].text) IN
             IF savedQid \in Qids(questionSet')
               THEN displayedQid' = savedQid
               ELSE currentQuestionIndex' = 0]_vars

\* An attempt with an answer, just resumed from the blob of an earlier page load
C2_Resumed ==
    /\ view = "exam"
    /\ sessionId # NullStr
    /\ lsAttempt[sessionId] = JSON_stringify(attempt)
    /\ attempt.answers # << >>
    /\ attempt.timer.remainingSec < EXAM_DURATION_SECONDS
    /\ userEvents = 1
    /\ isRunning
    /\ saveLeft = DEBOUNCE_MS
    /\ mutationAge = Off

\* The stored attempt has the answers and statuses of the attempt
storeReflectsAttempt ==
    /\ sessionId # NullStr
    /\ isStored(lsAttempt[sessionId])
    /\ lsAttempt[sessionId] # Malformed
    /\ JSON_parse(lsAttempt[sessionId]).answers = attempt.answers
    /\ JSON_parse(lsAttempt[sessionId]).statuses = attempt.statuses

\* C3: while the timer is running, a mutation of the attempt in progress is
\* written to the store by the debounced autosave: once DEBOUNCE_MS have passed
\* since the last mutation and no autosave timeout is due, the stored attempt
\* has the answers and statuses of the attempt.
C3_MutationIsPersisted ==
    (view = "exam" /\ inProgress /\ isRunning
        /\ mutationAge >= DEBOUNCE_MS /\ saveLeft # 0)
    => storeReflectsAttempt

\* C4: a start that finds a malformed blob under the session key discards it and
\* enters the exam view with a fresh attempt, and reports no error.
C4_MalformedBlobStartsFresh ==
    [][\A qSet \in QuestionSets, now \in Timestamps :
          (/\ view = "processing"
           /\ Len(qSet.questions) > 0
           /\ lsAttempt[pendingFile] = Malformed
           /\ ParseResolved(qSet, now))
          => /\ view' = "exam"
             /\ processingError' = NullStr
             /\ attempt' = newAttempt(qSet, pendingFile, now)
             /\ lsAttempt'[pendingFile] # Malformed]_vars

\* C5: while the attempt is submitted, neither key of the session is in the
\* store: submitExam removes them and no autosave timeout writes them again.
C5_SubmittedAttemptIsNotStored ==
    submitted =>
        /\ lsAttempt[sessionId] = Absent
        /\ lsLastQid[sessionId] = Absent

\* A submitted attempt after the autosave timeout that submitExam's re-render
\* set has fired
C5_TimeoutFiredAfterSubmit ==
    /\ submitted
    /\ view = "results"
    /\ saveLeft = Off
    /\ attempt.answers # << >>

\* C6: when an attempt with a mutation that no autosave has written yet is left,
\* the attempt as it is at that moment is written to the store under the session
\* key.
C6_ExitFlushesPendingWrite ==
    [][(view = "exam" /\ inProgress /\ mutationAge # Off /\ view' = "upload")
          => lsAttempt'[sessionId] = JSON_stringify(attempt)]_vars

\* C7: the tick that finds remainingTime at 1 sets it to 0, stops the timer and
\* calls onEnd; onEnd is called by no other step, at most once, and after it
\* remainingTime stays 0 and the timer stays stopped.
C7_ExpiryCallsOnEndOnce ==
    /\ [](onEndCalls <= 1)
    /\ [][(Tick /\ remainingTime = 1)
             => (remainingTime' = 0 /\ ~isRunning' /\ onEndCalls' = onEndCalls + 1)]_vars
    /\ [][onEndCalls' > onEndCalls
             => (Tick /\ remainingTime = 1 /\ remainingTime' = 0)]_vars
    /\ [][(onEndCalls >= 1 /\ onEndCalls' >= 1)
             => (onEndCalls' = onEndCalls /\ remainingTime' = 0 /\ ~isRunning')]_vars

\* The timer has expired and time has passed since
C7_Expired ==
    /\ onEndCalls = 1
    /\ remainingTime = 0
    /\ ~isRunning
    /\ submitted
    /\ saveLeft = Off

\* C8: a tick takes exactly 1 from remainingTime; remainingTime and the
\* remainingSec of the attempt are never negative; while the timer stays
\* running remainingTime does not grow.
C8_TickCountsDownByOne ==
    /\ [](remainingTime >= 0 /\ (attempt # Null => attempt.timer.remainingSec >= 0))
    /\ [][Tick => (remainingTime' = remainingTime - 1 /\ remainingTime' >= 0)]_vars
    /\ [][(isRunning /\ isRunning') => remainingTime' <= remainingTime]_vars

\* The running timer has counted down to its last second, with a pause on the way
C8_CountedDown ==
    /\ view = "exam"
    /\ isRunning
    /\ remainingTime = 1
    /\ attempt.timer.remainingSec = 1
    /\ saveLeft = Off

\* C9: outside the exam view no interval of the timer is live and no tick
\* happens, and the timer of a submitted attempt keeps its remainingSec.
C9_NoTickAfterStop ==
    /\ [](view # "exam" => tickLeft = Off)
    /\ [][Tick => view = "exam"]_vars
    /\ [][(submitted /\ attempt' # Null) => attempt'.timer = attempt.timer]_vars
    /\ [][(view = "results" /\ view' = "results") => remainingTime' = remainingTime]_vars

\* An attempt submitted by the user with time left, and time has passed since
C9_StoppedWithTimeLeft ==
    /\ view = "results"
    /\ submitted
    /\ remainingTime > 0
    /\ onEndCalls = 0
    /\ saveLeft = Off

\* C10: the step that submits the attempt sets its status to submitted and its
\* score to calculateScore of the attempt as it is, and changes nothing else of
\* it; a submitted attempt does not change as long as it exists.
C10_SubmitIsTerminal ==
    /\ [][(inProgress /\ attempt' # Null /\ attempt'.status = "submitted")
             => attempt' = [attempt EXCEPT !.status = "submitted",
                                           !.score = calculateScore(attempt, questionSet)]]_vars
    /\ [][(submitted /\ attempt' # Null) => attempt' = attempt]_vars
    /\ [](submitted => attempt.score # Null)

\* A submitted attempt with an answered question, after time has passed
C10_SubmittedAndScored ==
    /\ submitted
    /\ attempt.score # Null
    /\ attempt.score.totalAnswered > 0
    /\ saveLeft = Off

\* The questions (by position in the list) that have an entry in the answers
\* of the attempt that is not empty after trimming
givenIndexes ==
    {i \in 1..Len(questionSet.questions) :
        /\ questionSet.questions[i].qid \in DOMAIN attempt.answers
        /\ trim(attempt.answers[questionSet.questions[i].qid]) # <<>>}

givenAnswer(i) == attempt.answers[questionSet.questions[i].qid]

ofType(indexes, qtype) == {i \in indexes : questionSet.questions[i].qtype = qtype}

\* C13: the answered questions with an answer key that are counted correct are
\* those whose trimmed, lower-cased answer equals the trimmed, lower-cased
\* answer key.
C13_KeyIsTrimmedAndLowerCased ==
    submitted =>
        attempt.score.mcqCorrect + attempt.score.titaCorrect =
            Cardinality({i \in givenIndexes :
                /\ hasKey(questionSet.questions[i])
                /\ toLowerCase(trim(givenAnswer(i)))
                     = toLowerCase(trim(questionSet.questions[i].answerKey))})

\* The answered questions whose trimmed, lower-cased answer is the lower-cased
\* answer key
correctIndexes ==
    {i \in givenIndexes :
        /\ hasKey(questionSet.questions[i])
        /\ toLowerCase(trim(givenAnswer(i))) = toLowerCase(questionSet.questions[i].answerKey)}

\* C14: when every answered question has an answer key, mcqCorrect counts the
\* correct MCQ answers, mcqWrong the incorrect MCQ answers, titaCorrect the
\* correct TITA answers, an incorrect TITA answer is in none of the three, and
\* raw is mcqCorrect * marking.mcq.correct + mcqWrong * marking.mcq.wrong
\* + titaCorrect * marking.tita.correct.
C14_ScoringBuckets ==
    (submitted /\ \A i \in givenIndexes : hasKey(questionSet.questions[i])) =>
        LET marking == questionSet.meta.marking
            score == attempt.score
        IN  /\ score.mcqCorrect = Cardinality(ofType(correctIndexes, MCQ))
            /\ score.mcqWrong = Cardinality(ofType(givenIndexes \ correctIndexes, MCQ))
            /\ score.titaCorrect = Cardinality(ofType(correctIndexes, TITA))
            /\ score.raw = (score.mcqCorrect * marking.mcq.correct)
                             + (score.mcqWrong * marking.mcq.wrong)
                             + (score.titaCorrect * marking.tita.correct)
            /\ score.raw = (3 * Cardinality(correctIndexes))
                             - Cardinality(ofType(givenIndexes \ correctIndexes, MCQ))

\* A correct MCQ answer and an incorrect TITA answer, scored
C14_CorrectMcqIncorrectTita ==
    /\ submitted
    /\ Len(questionSet.questions) = 2
    /\ ofType(correctIndexes, MCQ) = {1}
    /\ ofType(givenIndexes \ correctIndexes, TITA) = {2}
    /\ hasKey(questionSet.questions[2])
    /\ attempt.score = [raw |-> 3, mcqCorrect |-> 1, mcqWrong |-> 0,
                        titaCorrect |-> 0, totalAnswered |-> 2]

\* C15: totalAnswered is the number of questions of the set whose entry in the
\* answers exists and is not empty after trimming, whatever their type and
\* whether the answer is correct.
C15_TotalAnsweredCountsTrimmedNonEmpty ==
    submitted => attempt.score.totalAnswered = Cardinality(givenIndexes)

\* A scored attempt with an answer of white space only, an incorrect answer and
\* a question without an entry
C15_WhitespaceNotCounted ==
    /\ submitted
    /\ Len(questionSet.questions) = 2
    /\ questionSet.questions[1].qtype = TITA
    /\ questionSet.questions[2].qtype = TITA
    /\ attempt.answers = (1 :> <<" ">>) @@ (2 :> <<"A">>)
    /\ attempt.score.totalAnswered = 1
    /\ attempt.score.titaCorrect = 0

scoreIffSubmitted(att) == (att.score # Null) <=> (att.status = "submitted")

\* C11: the score of the attempt, and of an attempt in the store, is non-null
\* if and only if its status is submitted.
C11_ScoreIffSubmitted ==
    /\ attempt # Null => scoreIffSubmitted(attempt)
    /\ \A f \in Files :
          (isStored(lsAttempt[f]) /\ lsAttempt[f] # Malformed)
              => scoreIffSubmitted(JSON_parse(lsAttempt[f]))

\* An attempt with an answer, submitted and scored by the expiry of the timer
C11_ScoredAtExpiry ==
    /\ submitted
    /\ view = "results"
    /\ onEndCalls = 1
    /\ attempt.score # Null
    /\ attempt.score.totalAnswered = 1

\* C12: the statuses of the attempt have an entry for every qid of the question
\* set, and every entry is one of the five status values.
C12_StatusesTotalOverQuestionSet ==
    (view = "exam" /\ attempt # Null /\ questionSet # Null) =>
        /\ Qids(questionSet) \subseteq DOMAIN attempt.statuses
        /\ \A qid \in DOMAIN attempt.statuses : attempt.statuses[qid] \in QuestionStatus

hasDuplicateQids(qSet) ==
    \E i, j \in 1..Len(qSet.questions) : i # j /\ qSet.questions[i].qid = qSet.questions[j].qid

\* C17: a start with a question set that has two questions of one qid creates
\* no attempt, does not enter the exam view, and reports an error.
C17_DuplicateQidsRefused ==
    [][\A qSet \in StartSets, now \in Timestamps :
          (hasDuplicateQids(qSet) /\ ParseResolved(qSet, now))
          => /\ attempt' = Null
             /\ view' = "upload"
             /\ processingError' # NullStr]_vars

\* C18: a start with an empty question list creates no attempt, reports that no
\* questions could be parsed, and leaves the store alone, whatever is stored
\* under the session key; no attempt has an empty statuses object.
C18_EmptyQuestionListRefused ==
    /\ [][\A qSet \in StartSets, now \in Timestamps :
             (Len(qSet.questions) = 0 /\ ParseResolved(qSet, now))
             => /\ attempt' = Null
                /\ view' = "upload"
                /\ processingError' = "No questions could be parsed from the PDF."
                /\ UNCHANGED <<lsAttempt, lsLastQid>>]_vars
    /\ [](attempt # Null => DOMAIN attempt.statuses # {})

\* The start with an empty question list was refused without a look at the
\* malformed blob stored under the session key
C18_RefusedBeforeStoreIsRead ==
    /\ view = "upload"
    /\ attempt = Null
    /\ questionSet # Null
    /\ Len(questionSet.questions) = 0
    /\ processingError = "No questions could be parsed from the PDF."
    /\ lsAttempt[sessionId] = Malformed

\* C19: a start that finds nothing stored under the session key enters the exam
\* view with an attempt in which the qid of the first question is NotAnswered
\* and every other qid is NotVisited, answers is empty, status is inProgress,
\* score is null, and remainingSec is durationSec, from which the timer runs.
C19_FreshStart ==
    [][\A qSet \in StartSets, now \in Timestamps :
          (/\ Len(qSet.questions) > 0
           /\ lsAttempt[pendingFile] = Absent
           /\ ParseResolved(qSet, now))
          => /\ view' = "exam"
             /\ DOMAIN attempt'.statuses = Qids(qSet)
             /\ \A i \in 1..Len(qSet.questions) :
                   attempt'.statuses[qSet.questions[i].qid] =
                       IF qSet.questions[i].qid = qSet.questions[1].qid
                         THEN NotAnswered ELSE NotVisited
             /\ attempt'.answers = << >>
             /\ attempt'.status = "inProgress"
             /\ attempt'.score = Null
             /\ attempt'.timer.remainingSec = attempt'.timer.durationSec
             /\ attempt'.timer.durationSec = EXAM_DURATION_SECONDS
             /\ remainingTime' = attempt'.timer.durationSec
             /\ isRunning']_vars

\* A fresh attempt on a question set whose first question has qid 2
C19_FreshAttemptFirstQid2 ==
    /\ view = "exam"
    /\ inProgress
    /\ Len(questionSet.questions) = 2
    /\ questionSet.questions[1].qid = 2
    /\ questionSet.questions[2].qid = 1
    /\ attempt.statuses = (1 :> NotVisited) @@ (2 :> NotAnswered)
    /\ attempt.answers = << >>
    /\ attempt.timer.remainingSec = EXAM_DURATION_SECONDS

\* The status ToggleMark gives a question of status `current` whose answer is
\* non-empty or not
toggled(current, nonEmpty) ==
    CASE current = MarkedForReview -> IF nonEmpty THEN Answered ELSE NotAnswered
      [] current = AnsweredAndMarked -> Answered
      [] OTHER -> IF nonEmpty THEN AnsweredAndMarked ELSE MarkedForReview

\* C20: handleMarkForReview gives the displayed question the status that
\* ToggleMark prescribes for its status and its answer, and changes no other
\* status and no answer; the status it computes is the prescribed one for each
\* of the five statuses and for an answer that is missing, empty or non-empty.
C20_ToggleMark ==
    /\ [][handleMarkForReview =>
             LET qid == currentQuestion.qid
                 nonEmpty == qid \in DOMAIN attempt.answers /\ attempt.answers[qid] # <<>>
             IN  /\ attempt'.statuses[qid] = toggled(statusOf(attempt.statuses, qid), nonEmpty)
                 /\ \A other \in DOMAIN attempt.statuses \ {qid} :
                       attempt'.statuses[other] = attempt.statuses[other]
                 /\ attempt'.answers = attempt.answers]_vars
    /\ [](\A current \in QuestionStatus, answers \in {<< >>} \cup {(1 :> text) : text \in TitaTexts} :
             markStatus([statuses |-> (1 :> current), answers |-> answers], 1)
                 = toggled(current, answers # << >> /\ answers[1] # <<>>))

\* The only user event so far has marked the displayed, unanswered question
C20_MarkedUnanswered ==
    /\ view = "exam"
    /\ userEvents = 1
    /\ attempt.statuses[currentQuestion.qid] = MarkedForReview
    /\ attempt.answers = << >>

\* The values SelectOption and TypeAnswer pass to handleAnswerChange
AnswerValues == {<<"A">>, <<"B">>} \cup TitaTexts

\* The statuses a question can have, a missing entry included
AnyStatus == QuestionStatus \cup {UndefinedStatus}

nonEmptyAnswer(att, qid) == qid \in DOMAIN att.answers /\ att.answers[qid] # <<>>

\* The status SetAnswer with a non-empty value gives a question of status `current`
afterSet(current) ==
    IF current \in {MarkedForReview, AnsweredAndMarked} THEN AnsweredAndMarked ELSE Answered

\* The status ClearAnswer gives a question of status `current`
afterClear(current) ==
    CASE current = AnsweredAndMarked -> MarkedForReview
      [] current = MarkedForReview -> MarkedForReview
      [] OTHER -> NotAnswered

\* The status Visit gives a question of status `current`
afterVisit(current) == IF current = NotVisited THEN NotAnswered ELSE current

\* C21: an answer change of the displayed question to a non-empty value v makes
\* v its answer and its status AnsweredAndMarked if the status is
\* MarkedForReview or AnsweredAndMarked, Answered otherwise; the status
\* handleAnswerChange computes is that one for every status.
C21_SetAnswer ==
    /\ [][\A v \in AnswerValues \ {<<>>} :
             (SelectOption(v) \/ TypeAnswer(v)) =>
                 LET qid == currentQuestion.qid IN
                 /\ attempt'.answers[qid] = v
                 /\ attempt'.statuses[qid] = afterSet(statusOf(attempt.statuses, qid))]_vars
    /\ [](\A current \in AnyStatus, v \in AnswerValues \ {<<>>} :
             answerStatus(current, v) = afterSet(current))

\* The only two user events so far have marked the displayed question and then
\* given it the answer A
C21_MarkedThenAnswered ==
    /\ view = "exam"
    /\ userEvents = 2
    /\ currentQuestionIndex = 0
    /\ currentQuestion.qtype = MCQ
    /\ attempt.answers = (currentQuestion.qid :> <<"A">>)
    /\ attempt.statuses[currentQuestion.qid] = AnsweredAndMarked

\* C22: clearing the answer of the displayed question (clearResponse, or the
\* text input emptied) makes its answer empty and its status MarkedForReview if
\* the status is AnsweredAndMarked or MarkedForReview, NotAnswered otherwise;
\* the status handleAnswerChange computes is that one for every status.
C22_ClearAnswer ==
    /\ [][(clearResponse \/ TypeAnswer(<<>>)) =>
             LET qid == currentQuestion.qid IN
             /\ attempt'.answers[qid] = <<>>
             /\ attempt'.statuses[qid] = afterClear(statusOf(attempt.statuses, qid))]_vars
    /\ [](\A current \in AnyStatus : answerStatus(current, <<>>) = afterClear(current))

\* The three user events so far have left the displayed question marked, with
\* an answer that is cleared
C22_ClearedKeepsMark ==
    /\ view = "exam"
    /\ userEvents = 3
    /\ currentQuestionIndex = 0
    /\ currentQuestion.qtype = MCQ
    /\ attempt.answers = (currentQuestion.qid :> <<>>)
    /\ attempt.statuses[currentQuestion.qid] = MarkedForReview

\* C23: selecting a question sets its status to NotAnswered if it is
\* NotVisited and leaves its status as it is otherwise, and displays it;
\* selecting it a second time changes no status.
C23_Visit ==
    /\ [][\A index \in 0..1 :
             handleQuestionSelect(index) =>
                 LET qid == questionSet.questions[index + 1].qid IN
                 /\ statusOf(attempt'.statuses, qid)
                       = afterVisit(statusOf(attempt.statuses, qid))
                 /\ currentQuestionIndex' = index]_vars
    /\ [](view = "exam" =>
             \A index \in 0..(Len(questionSet.questions) - 1) :
                 LET qid == questionSet.questions[index + 1].qid
                     once == questionSelect(attempt, currentQuestion.qid, qid)
                     twice == questionSelect(once, qid, qid)
                 IN  twice = once)

\* The second question is displayed: it was selected, answered and selected
\* again, and kept the status Answered
C23_VisitedAnswered ==
    /\ view = "exam"
    /\ userEvents = 3
    /\ currentQuestionIndex = 1
    /\ Cardinality(Qids(questionSet)) = 2
    /\ nonEmptyAnswer(attempt, currentQuestion.qid)
    /\ attempt.statuses[currentQuestion.qid] = Answered
    /\ attempt.statuses[questionSet.questions[1].qid] = NotAnswered

\* C24: in a step from an attempt to an attempt, a question whose status is not
\* NotVisited does not get the status NotVisited.
C24_NeverBackToNotVisited ==
    [][(attempt # Null /\ attempt' # Null) =>
          \A qid \in DOMAIN attempt'.statuses :
              attempt'.statuses[qid] = NotVisited
                  => statusOf(attempt.statuses, qid) = NotVisited]_vars

\* A question that was answered and then cleared, while the other question is
\* still NotVisited
C24_ClearedNotUnvisited ==
    /\ view = "exam"
    /\ inProgress
    /\ userEvents = 2
    /\ attempt.answers = (1 :> <<>>)
    /\ attempt.statuses = (1 :> NotAnswered) @@ (2 :> NotVisited)

\* handleMarkForReview on question qid of att, twice
toggledTwice(att, qid) ==
    LET once == updateStatus(att, qid, markStatus(att, qid))
    IN  updateStatus(once, qid, markStatus(once, qid))

\* The status says the question is answered exactly if its answer is non-empty
answeredAsStatusSays(att, qid) ==
    (statusOf(att.statuses, qid) \in {Answered, AnsweredAndMarked}) <=> nonEmptyAnswer(att, qid)

\* The outcome of two toggles that C25 states
twiceToggledAsStated(att, qid) ==
    answeredAsStatusSays(att, qid) =>
        toggledTwice(att, qid).statuses[qid] =
            IF statusOf(att.statuses, qid) \in {NotVisited, UndefinedStatus}
              THEN NotAnswered
              ELSE att.statuses[qid]

\* C25: for the displayed question, and for every status with a missing, an
\* empty and a non-empty answer, if the status says the question is answered
\* exactly if its answer is non-empty, two toggles of the mark give NotAnswered
\* from NotVisited and the original status from every other status.
C25_ToggleMarkTwice ==
    /\ view = "exam" => twiceToggledAsStated(attempt, currentQuestion.qid)
    /\ \A current \in QuestionStatus,
          answers \in {<< >>} \cup {(1 :> text) : text \in TitaTexts} :
              twiceToggledAsStated([statuses |-> (1 :> current), answers |-> answers], 1)

\* A fresh attempt whose only two user events have marked and unmarked the
\* first question
C25_MarkedAndUnmarked ==
    /\ view = "exam"
    /\ userEvents = 2
    /\ currentQuestionIndex = 0
    /\ Cardinality(Qids(questionSet)) = 2
    /\ attempt.answers = << >>
    /\ attempt.statuses = freshStatuses(questionSet)

\* The step leaves the status and the answer of every question but q as they are
othersUnchanged(q) ==
    \A qid \in ((DOMAIN attempt.statuses) \cup (DOMAIN attempt'.statuses)
                 \cup (DOMAIN attempt.answers) \cup (DOMAIN attempt'.answers)) \ {q} :
        /\ statusOf(attempt'.statuses, qid) = statusOf(attempt.statuses, qid)
        /\ Get(attempt'.answers, qid) = Get(attempt.answers, qid)

\* The step gives q the status `next`, computed from q's own status and answer
ownStatus(q, next) == statusOf(attempt'.statuses, q) = next

\* C30: an answer change, a clearing or a toggle of the mark of the displayed
\* question q, and the selection of a question q, leave the status and the
\* answer of every other question unchanged, and give q the status that the
\* transition table gives for q's own status and answer.
C30_PerQuestionIndependence ==
    [][LET shown == currentQuestion.qid
           current == statusOf(attempt.statuses, shown)
       IN
       /\ \A v \in AnswerValues \ {<<>>} :
             (SelectOption(v) \/ TypeAnswer(v)) =>
                 othersUnchanged(shown) /\ ownStatus(shown, afterSet(current))
       /\ (clearResponse \/ TypeAnswer(<<>>)) =>
             othersUnchanged(shown) /\ ownStatus(shown, afterClear(current))
       /\ handleMarkForReview =>
             /\ othersUnchanged(shown)
             /\ ownStatus(shown, toggled(current, nonEmptyAnswer(attempt, shown)))
       /\ \A index \in 0..1 :
             handleQuestionSelect(index) =>
                 LET q == questionSet.questions[index + 1].qid IN
                 /\ othersUnchanged(q)
                 /\ ownStatus(q, afterVisit(statusOf(attempt.statuses, q)))]_vars

\* C26: setTime(v) called while the timer is not running makes remainingTime
\* and the attempt's remainingSec v and leaves the timer not running; called
\* while the timer is running it changes neither remainingTime, nor the
\* attempt's remainingSec, nor isRunning, nor the time to the next tick.
C26_SetTimeOnlyWhilePaused ==
    [][\A v \in Times :
          setTime(v) =>
              IF isRunning
                THEN /\ isRunning'
                     /\ remainingTime' = remainingTime
                     /\ attempt'.timer.remainingSec = attempt.timer.remainingSec
                     /\ tickLeft' = tickLeft
                ELSE /\ ~isRunning'
                     /\ remainingTime' = v
                     /\ attempt'.timer.remainingSec = v]_vars

\* The timer was paused after its first tick and then set back to the full
\* duration
C26_SetBackWhilePaused ==
    /\ view = "exam"
    /\ ~isRunning
    /\ userEvents = 2
    /\ remainingTime = EXAM_DURATION_SECONDS
    /\ attempt.timer.remainingSec = EXAM_DURATION_SECONDS
    /\ saveLeft = DEBOUNCE_MS
    /\ isStored(lsAttempt[sessionId])
    /\ JSON_parse(lsAttempt[sessionId]).timer.remainingSec < EXAM_DURATION_SECONDS

\* C27: start() while the timer is running and pause() while it is not running
\* change neither isRunning, nor remainingTime, nor the attempt, nor the time
\* to the next tick, nor the pending autosave.
C27_PauseResumeIdempotent ==
    [][((start /\ isRunning) \/ (pause /\ ~isRunning)) =>
          UNCHANGED <<view, attempt, remainingTime, isRunning, tickLeft, saveLeft,
                      lsAttempt, lsLastQid, onEndCalls>>]_vars

\* start() was the only call, made while the timer was running, and the timer
\* has ticked once and its second tick is due
C27_ResumedWhileTickDue ==
    /\ view = "exam"
    /\ isRunning
    /\ userEvents = 1
    /\ tickLeft = 0
    /\ remainingTime = EXAM_DURATION_SECONDS - 1

\* C28: in the exam view the store is written only by the callback of the
\* autosave timeout; it runs only when no user mutation is younger than
\* DEBOUNCE_MS, writes the attempt and the qid of the displayed question as
\* they are then, and leaves no timeout pending, and a timeout is pending again
\* only after a user event or a tick.
C28_DebounceCoalescing ==
    [][(view = "exam" /\ view' = "exam") =>
          /\ (lsAttempt' # lsAttempt \/ lsLastQid' # lsLastQid) => SaveFire
          /\ SaveFire =>
                /\ mutationAge = Off \/ mutationAge >= DEBOUNCE_MS
                /\ attempt' = attempt
                /\ lsAttempt'[sessionId] = JSON_stringify(attempt)
                /\ lsLastQid'[sessionId] = Stored(toString(currentQuestion.qid))
                /\ saveLeft' = Off
          /\ (saveLeft = Off /\ saveLeft' # Off) =>
                (userEvents' = userEvents + 1 \/ Tick)]_vars

\* Two user mutations were made while the timer was paused before its first
\* tick, the second on the second question, and the store holds the attempt
\* and the displayed qid as they are after the second
C28_BurstWritten ==
    /\ view = "exam"
    /\ ~isRunning
    /\ remainingTime = EXAM_DURATION_SECONDS
    /\ userEvents = 2
    /\ currentQuestionIndex = 1
    /\ nonEmptyAnswer(attempt, currentQuestion.qid)
    /\ saveLeft = Off
    /\ mutationAge = Off
    /\ lsAttempt[sessionId] = JSON_stringify(attempt)
    /\ lsLastQid[sessionId] = Stored(toString(currentQuestion.qid))

\* C29: a step of the exam view from a paused timer to a paused timer leaves
\* remainingTime and the attempt's remainingSec unchanged; while the timer is
\* paused no interval is set, and the interval callback runs only while the
\* timer is running.
C29_NoTickWhilePaused ==
    /\ [][(view = "exam" /\ view' = "exam" /\ ~isRunning /\ ~isRunning') =>
             /\ remainingTime' = remainingTime
             /\ attempt'.timer.remainingSec = attempt.timer.remainingSec]_vars
    /\ [](view = "exam" /\ ~isRunning => tickLeft = Off)
    /\ [][Tick => isRunning]_vars

\* The timer was paused after its first tick and has stayed paused for
\* DEBOUNCE_MS: the autosave has written the attempt with remainingSec as it
\* was at the pause
C29_PausedForThreeSeconds ==
    /\ view = "exam"
    /\ ~isRunning
    /\ remainingTime = EXAM_DURATION_SECONDS - 1
    /\ attempt.timer.remainingSec = EXAM_DURATION_SECONDS - 1
    /\ saveLeft = Off
    /\ lsAttempt[sessionId] = JSON_stringify(attempt)

\* The fields of an attempt that identify it and its start
fixedFields(att) ==
    <<att.uploadId, att.userId, att.timer.startedAt, att.timer.durationSec>>

\* C31: every step from an attempt to an attempt (a user event, a tick, a
\* submit) leaves uploadId, userId, timer.startedAt and timer.durationSec as
\* they are, and an attempt that is resumed has them as they are in the blob.
C31_FixedFields ==
    /\ [][(attempt # Null /\ attempt' # Null) =>
             fixedFields(attempt') = fixedFields(attempt)]_vars
    /\ [][(resumeStep /\ view' = "exam") =>
             fixedFields(attempt') = fixedFields(JSON_parse(lsAttempt[pendingFile]))]_vars

\* An attempt submitted after a tick and two user events that has the fields
\* it was created with
C31_SubmittedWithFixedFields ==
    /\ view = "results"
    /\ submitted
    /\ userEvents = 2
    /\ attempt.answers # << >>
    /\ attempt.timer.remainingSec = EXAM_DURATION_SECONDS - 1
    /\ fixedFields(attempt) = <<sessionId, "local_user", 1, EXAM_DURATION_SECONDS>>

\* The questions of the set whose status says they are answered
answeredStatusIndexes(att, qSet) ==
    {i \in 1..Len(qSet.questions) :
        statusOf(att.statuses, qSet.questions[i].qid) \in {Answered, AnsweredAndMarked}}

\* C32: in the exam view of an attempt started fresh (nothing is stored under
\* the session key), the status of a question is Answered or AnsweredAndMarked
\* exactly if its answer is non-empty after trimming, and the number of
\* questions with such a status is the totalAnswered that calculateScore
\* computes for the attempt.
C32_StatusAgreesWithScoring ==
    (view = "exam" /\ lsAttempt[sessionId] = Absent) =>
        /\ \A i \in 1..Len(questionSet.questions) :
              LET qid == questionSet.questions[i].qid IN
              (statusOf(attempt.statuses, qid) \in {Answered, AnsweredAndMarked})
                  <=> isAnswered(Get(attempt.answers, qid))
        /\ Cardinality(answeredStatusIndexes(attempt, questionSet))
              = calculateScore(attempt, questionSet).totalAnswered

\* C33: an attempt that was submitted by the expiry of the timer (endTimer
\* called onEnd) has timer.remainingSec 0.
C33_ExpirySubmitsWithZero ==
    (view = "results" /\ submitted /\ onEndCalls >= 1) => attempt.timer.remainingSec = 0

\* C34: from every state of the exam view with the timer running, the
\* countdown reaches 0 and the attempt is submitted with a score, whatever user
\* events take place.
C34_ExpiryLiveness ==
    (view = "exam" /\ isRunning)
        ~> (view = "results" /\ submitted /\ attempt.score # Null /\ remainingTime = 0)

\* C35: every well-formed blob in the store has the status inProgress and a
\* null score; the step that submits the attempt leaves nothing stored under
\* the session key; an attempt that is resumed is in progress.
C35_OnlyInProgressIsStored ==
    /\ [](\A f \in Files :
             (isStored(lsAttempt[f]) /\ lsAttempt[f] # Malformed) =>
                 /\ JSON_parse(lsAttempt[f]).status = "inProgress"
                 /\ JSON_parse(lsAttempt[f]).score = Null)
    /\ [][(view = "exam" /\ view' = "results") =>
             (submitted' /\ lsAttempt'[sessionId] = Absent /\ lsLastQid'[sessionId] = Absent)]_vars
    /\ [][resumeStep => (attempt'.status = "inProgress" /\ attempt'.score = Null)]_vars

\* An attempt with an answer that was written by the autosave and has just
\* been resumed from the store after a reload
C35_ResumedFromWrittenBlob ==
    /\ view = "exam"
    /\ inProgress
    /\ isRunning
    /\ userEvents = 1
    /\ attempt.answers # << >>
    /\ tickLeft = TICK_MS
    /\ saveLeft = DEBOUNCE_MS
    /\ mutationAge = Off
    /\ lsAttempt[sessionId] = JSON_stringify(attempt)

\* The status carries the mark
isMarked(status) == status \in {MarkedForReview, AnsweredAndMarked}

\* C36: an answer change or a clearing of the displayed question leaves every
\* question marked exactly if it was marked before, and the status
\* handleAnswerChange computes is marked exactly if the current status is, for
\* every status and value; a toggle of the mark and a selection of a question
\* leave the answers as they are.
C36_MarkAndAnswerOrthogonal ==
    /\ [][((\E v \in AnswerValues : SelectOption(v) \/ TypeAnswer(v)) \/ clearResponse) =>
             \A qid \in (DOMAIN attempt.statuses) \cup (DOMAIN attempt'.statuses) :
                 isMarked(statusOf(attempt'.statuses, qid))
                     <=> isMarked(statusOf(attempt.statuses, qid))]_vars
    /\ [](\A current \in AnyStatus, v \in AnswerValues :
             isMarked(answerStatus(current, v)) <=> isMarked(current))
    /\ [][(handleMarkForReview \/ \E index \in 0..1 : handleQuestionSelect(index)) =>
             attempt'.answers = attempt.answers]_vars

\* After three user events on the displayed question, among them an answer, a
\* clearing and a toggle of the mark, it is marked and its answer is the empty
\* one
C36_MarkSurvivesClearing ==
    /\ view = "exam"
    /\ userEvents = 3
    /\ currentQuestionIndex = 0
    /\ currentQuestion.qtype = TITA
    /\ attempt.answers = (currentQuestion.qid :> <<>>)
    /\ attempt.statuses[currentQuestion.qid] = MarkedForReview

\* C37: in the exam view of an attempt started fresh (nothing is stored under
\* the session key) the displayed question has a status, and it is not
\* NotVisited; so every answer change, clearing and toggle of the mark of such
\* an attempt is made on a question that is not NotVisited.
C37_DisplayedIsVisited ==
    /\ []((view = "exam" /\ lsAttempt[sessionId] = Absent) =>
             attempt.statuses[currentQuestion.qid] \in QuestionStatus \ {NotVisited})
    /\ [][(/\ view = "exam"
           /\ lsAttempt[sessionId] = Absent
           /\ \/ \E v \in AnswerValues : SelectOption(v) \/ TypeAnswer(v)
              \/ clearResponse
              \/ handleMarkForReview)
             => statusOf(attempt.statuses, currentQuestion.qid) # NotVisited]_vars

\* The second question of a fresh attempt was displayed and then the first one
\* again, by the navigator or by the Next and Previous buttons: neither is
\* NotVisited
C37_NavigatedThereAndBack ==
    /\ view = "exam"
    /\ lsAttempt[sessionId] = Absent
    /\ userEvents = 2
    /\ currentQuestionIndex = 0
    /\ attempt.answers = << >>
    /\ Cardinality(DOMAIN attempt.statuses) = 2
    /\ \A qid \in DOMAIN attempt.statuses : attempt.statuses[qid] = NotAnswered

=============================================================================
